---- MODULE Spec2Model ----
(***************************************************************************)
(* EDG backend template: the service bootstrap (environment -> config ->   *)
(* Express application -> database -> listen -> shutdown), the request     *)
(* pipeline of the Express application, and the service generator script.  *)
(***************************************************************************)
EXTENDS Integers, Sequences, FiniteSets, TLC

\* ------------------------------------------------------------------ bounds
\* The value RATE_LIMIT_MAX_ATTEMPTS has in the modelled environment.
RateLimitMax == 2
\* How many /health requests may wait on sequelize.authenticate() at once.
MaxPending == 1
\* How many signals the process receives at most.
MaxSignals == 1

\* ------------------------------------------------------- environment values
\* process.env[x] of a variable that is not set (undefined in JavaScript).
UNSET == "<unset>"

\* JavaScript truthiness of an environment value: undefined and "" are falsy.
Falsy(v) == v = UNSET \/ v = ""

\* a || b on environment strings.
OrElse(v, d) == IF Falsy(v) THEN d ELSE v

EnvNames == {"DB_NAME", "DB_USER", "DB_PASSWORD", "DB_HOST", "NODE_ENV", "DB_SYNC",
             "PORT", "DB_TYPE", "CORS_ORIGINS"}

\* A CORS_ORIGINS of two entries, with blanks around the first one.
TwoOrigins == " https://app.example ,https://admin.example"

\* The environments the model starts from.
EnvValues(n) ==
  CASE n = "NODE_ENV" -> {UNSET, "development", "production", "test"}
    [] n = "DB_SYNC"  -> {UNSET, "true", "false"}
    [] n = "PORT"     -> {UNSET, "8080"}
    [] n = "DB_TYPE"  -> {UNSET, "mysql", "postgres"}
    [] n = "CORS_ORIGINS" -> {UNSET, TwoOrigins}
    [] OTHER          -> {UNSET, "", "v"}

Environments ==
  [DB_NAME : EnvValues("DB_NAME"), DB_USER : EnvValues("DB_USER"),
   DB_PASSWORD : EnvValues("DB_PASSWORD"), DB_HOST : EnvValues("DB_HOST"),
   NODE_ENV : EnvValues("NODE_ENV"), DB_SYNC : EnvValues("DB_SYNC"),
   PORT : EnvValues("PORT"), DB_TYPE : EnvValues("DB_TYPE"),
   CORS_ORIGINS : EnvValues("CORS_ORIGINS")]

\* parseInt on the decimal strings the environments and the defaults hold.
parseInt(s) ==
  CASE s = "3001" -> 3001
    [] s = "3306" -> 3306
    [] s = "8080" -> 8080

\* ------------------------------------------------------------ createServiceConfig
\* Faulty variant: DB_HOST is left out of the required variables.
requiredVars_withoutHost == <<"DB_NAME", "DB_USER", "DB_PASSWORD">>

requiredVars == <<"DB_NAME", "DB_USER", "DB_PASSWORD", "DB_HOST">>

missingVars(e) == SelectSeq(requiredVars, LAMBDA varName : Falsy(e[varName]))

\* The characters of a CORS_ORIGINS value; the text of a URL, which holds
\* neither comma nor blank, stands as one item.
Characters(s) ==
  CASE s = TwoOrigins -> <<" ", "https://app.example", " ", ",", "https://admin.example">>

\* String.prototype.split(","), on characters.
RECURSIVE split(_, _)
split(chars, current) ==
  IF chars = <<>> THEN <<current>>
  ELSE IF Head(chars) = "," THEN <<current>> \o split(Tail(chars), <<>>)
  ELSE split(Tail(chars), Append(current, Head(chars)))

\* Faulty variant: the entries are taken as they are.
trim_none(chars) == chars

\* String.prototype.trim(), on characters.
RECURSIVE trim(_)
trim(chars) ==
  IF chars = <<>> THEN <<>>
  ELSE IF Head(chars) = " " THEN trim(Tail(chars))
  ELSE IF chars[Len(chars)] = " " THEN trim(SubSeq(chars, 1, Len(chars) - 1))
  ELSE chars

\* The string of some characters.
RECURSIVE Join(_)
Join(chars) == IF chars = <<>> THEN "" ELSE Head(chars) \o Join(Tail(chars))

\* process.env.CORS_ORIGINS?.split(",").map((o) => o.trim()) || []
corsOrigins(v) ==
  IF v = UNSET THEN {}
  ELSE {Join(trim(o)) : o \in {split(Characters(v), <<>>)[i] : i \in 1..Len(split(Characters(v), <<>>))}}

DefaultOrigins == {"http://localhost:5173", "http://localhost:5174",
                   "http://localhost:3000", "http://localhost:8080"}

NoConfig == [serviceName |-> "", port |-> 0, nodeEnv |-> "",
             database |-> [name |-> "", user |-> "", password |-> "", host |-> "",
                           port |-> 0, dialect |-> ""],
             security |-> [rateLimitMaxAttempts |-> 0], cors |-> [origins |-> {}]]

\* The overrides src/app.ts passes.
AppOverrides == [serviceName |-> "EDG Backend Template", port |-> 3001]

baseConfig(e) ==
  [serviceName |-> OrElse(UNSET, "edg-template"),
   port        |-> parseInt(OrElse(e["PORT"], "3001")),
   nodeEnv     |-> OrElse(e["NODE_ENV"], "development"),
   database    |-> [name |-> e["DB_NAME"], user |-> e["DB_USER"], password |-> e["DB_PASSWORD"],
                    host |-> OrElse(e["DB_HOST"], "localhost"),
                    port |-> parseInt("3306"),
                    dialect |-> "mysql"],
   security    |-> [rateLimitMaxAttempts |-> RateLimitMax],
   cors        |-> [origins |-> DefaultOrigins \cup corsOrigins(e["CORS_ORIGINS"])]]

\* { ...baseConfig, ...overrides }
MergeConfig(base, overrides) ==
  [k \in DOMAIN base |-> IF k \in DOMAIN overrides THEN overrides[k] ELSE base[k]]

\* Faulty variant: everything but production counts as development.
isDevelopment_notProduction(c) == c.nodeEnv # "production"

isDevelopment(c) == c.nodeEnv = "development"
isProduction(c) == c.nodeEnv = "production"

\* ------------------------------------------------------------------ modules
\* The template module of src/app.ts: mounted at /template, four routes.
templateModule ==
  [name |-> "template", path |-> <<"template">>,
   routes |-> {<<"GET", <<"health">>>>, <<"GET", <<"info">>>>,
               <<"GET", <<"examples">>>>, <<"POST", <<"examples">>>>},
   models |-> <<"Example">>, associations |-> FALSE]

\* A module mounted at "/" whose router has a GET /health route of its own.
publicModule ==
  [name |-> "public", path |-> <<>>, routes |-> {<<"GET", <<"health">>>>},
   models |-> <<>>, associations |-> FALSE]

\* Two modules with models and association functions of their own.
catalogModule ==
  [name |-> "catalog", path |-> <<"catalog">>, routes |-> {<<"GET", <<>>>>},
   models |-> <<"Product">>, associations |-> TRUE]

ordersModule ==
  [name |-> "orders", path |-> <<"orders">>, routes |-> {<<"GET", <<>>>>},
   models |-> <<"Order", "Item">>, associations |-> TRUE]

\* A service built from the two of them.
DatabaseOptions ==
  {[modules |-> <<catalogModule, ordersModule>>, customMiddleware |-> <<>>]}

\* The ServerOptions the model builds servers from: the template application
\* with one caller-supplied middleware, and a service with a module mounted
\* at "/" and no custom middleware.
ServerOptions ==
  {[modules |-> <<templateModule>>, customMiddleware |-> <<"custom">>],
   [modules |-> <<publicModule>>, customMiddleware |-> <<>>]}

\* ----------------------------------------------------------------- requests
\* A path is the sequence of its segments: "/" is <<>>, "/template/info" is
\* <<"template", "info">>.
Methods == {"GET", "POST", "OPTIONS"}
Paths == {<<>>, <<"health">>, <<"template", "info">>, <<"nope">>}
\* The Origin header: absent, one of the allowed defaults, a foreign one.
Origins == {UNSET, "http://localhost:5173", "https://app.example"}
Clients == {"ip1"}

\* bodyOk = FALSE: a JSON body that does not parse (only sent with POST here).
Requests == {r \in [method : Methods, path : Paths, origin : Origins,
                    bodyOk : BOOLEAN, client : Clients] :
               r.method # "POST" => r.bodyOk}

NoRequest == [method |-> "", path |-> <<>>, origin |-> UNSET, bodyOk |-> TRUE, client |-> ""]

\* ---------------------------------------------------------------- responses
NoData == [keys |-> {}, status |-> ""]

\* The error string of a body: its text, and the method and URL a template
\* string put into it.
ErrorText(message) == [message |-> message, method |-> "", url |-> <<>>]

\* status, whether the body is JSON, the body's top-level keys, and the
\* values of the keys the handlers set.
NoResponse == [status |-> 0, json |-> FALSE, keys |-> {}, success |-> FALSE,
               error |-> ErrorText(""), data |-> NoData]

\* ------------------------------------------------------------------- errors
\* status 0 stands for an error object without a status property.
NoError == [message |-> "", status |-> 0]
corsError == [message |-> "Non consentito da CORS", status |-> 0]
\* body-parser rejects a malformed JSON body with an error of status 400.
parseError == [message |-> "Unexpected token in JSON", status |-> 400]

\* ------------------------------------------------------ application layers
Layer(kind) == [kind |-> kind, name |-> "", path |-> <<>>, routes |-> {}]

RouterLayer(m) == [kind |-> "router", name |-> m.name, path |-> m.path, routes |-> m.routes]

setupMiddleware(c) ==
  <<Layer("helmet"), Layer("cors"), Layer("rateLimit"), Layer("json"), Layer("urlencoded")>>
    \o (IF isDevelopment(c) THEN <<Layer("logger")>> ELSE <<>>)

\* Faulty variant: the /health route is not registered.
setupRoutes_withoutHealth(mods) ==
  [i \in 1..Len(mods) |-> RouterLayer(mods[i])] \o <<Layer("root")>>

setupRoutes(mods) ==
  [i \in 1..Len(mods) |-> RouterLayer(mods[i])] \o <<Layer("root"), Layer("health")>>

setupErrorHandling == <<Layer("notFound"), Layer("errorHandler")>>

applyCustomMiddleware(cm) == [i \in 1..Len(cm) |-> Layer("custom")]

\* ----------------------------------------------------------------- handlers
IsPrefix(p, q) == Len(p) <= Len(q) /\ \A i \in 1..Len(p) : p[i] = q[i]

\* app.use(module.path, module.router): the router answers when the path is
\* under its mount point and it has a route for the method and the rest.
RouterMatches(layer, req) ==
  /\ IsPrefix(layer.path, req.path)
  /\ <<req.method, SubSeq(req.path, Len(layer.path) + 1, Len(req.path))>> \in layer.routes

\* cors: the origin callback of setupMiddleware.
originAllowed(c, origin) == Falsy(origin) \/ origin \in c.cors.origins

\* cors answers a preflight itself (204, no body).
preflightResponse == [NoResponse EXCEPT !.status = 204]

\* express-rate-limit: the configured message, sent with status 429.
rateLimitResponse ==
  [status |-> 429, json |-> TRUE, keys |-> {"success", "error", "retryAfter"},
   success |-> FALSE, error |-> ErrorText("Troppe richieste da questo IP, riprova piu tardi"),
   data |-> NoData]

moduleResponse ==
  [status |-> 200, json |-> TRUE, keys |-> {"success", "data"}, success |-> TRUE,
   error |-> ErrorText(""), data |-> [keys |-> {"message", "timestamp"}, status |-> ""]]

rootResponse ==
  [status |-> 200, json |-> TRUE, keys |-> {"success", "data"}, success |-> TRUE,
   error |-> ErrorText(""),
   data |-> [keys |-> {"message", "service", "version", "environment", "modules", "timestamp"},
             status |-> ""]]

\* DatabaseManager.healthCheck: it catches the failure of authenticate().
healthCheck(authOk) == IF authOk THEN "healthy" ELSE "unhealthy"

\* Faulty variant: the handler answers 200 whatever the check found.
healthStatus_always200(dbHealth) == 200

\* Faulty variant: an unhealthy database is reported as a server error.
healthStatus_serverError(dbHealth) == IF dbHealth = "healthy" THEN 200 ELSE 500

\* The /health handler; dbHealth = "throws" is its catch branch.
healthStatus(dbHealth) == IF dbHealth = "healthy" THEN 200 ELSE 503

healthResponse(dbHealth) ==
  IF dbHealth = "throws"
  THEN [status |-> 503, json |-> TRUE, keys |-> {"success", "data"}, success |-> FALSE,
        error |-> ErrorText(""),
        data |-> [keys |-> {"status", "service", "error", "timestamp"}, status |-> "error"]]
  ELSE [status |-> healthStatus(dbHealth), json |-> TRUE, keys |-> {"success", "data"},
        success |-> (dbHealth = "healthy"), error |-> ErrorText(""),
        data |-> [keys |-> {"status", "service", "database", "uptime", "timestamp"},
                  status |-> dbHealth]]

\* Faulty variant: the 404 handler forgets res.status(404) and answers with the
\* status res.json gives by default, as the root handler does.
notFoundStatus_default == rootResponse.status

notFoundStatus == 404

notFoundResponse(req) ==
  [status |-> notFoundStatus, json |-> TRUE,
   keys |-> {"success", "error", "service", "availableEndpoints", "timestamp"},
   success |-> FALSE, error |-> [message |-> "Endpoint non trovato", method |-> req.method, url |-> req.path],
   data |-> NoData]

\* error.status || 500
errorStatus(err) == IF err.status = 0 THEN 500 ELSE err.status

\* Faulty variant: the raw message goes out in every environment.
errorMessage_raw(c, err) == err.message

errorMessage(c, err) == IF isDevelopment(c) THEN err.message ELSE "Errore interno del server"

errorResponse(c, err) ==
  [status |-> errorStatus(err), json |-> TRUE,
   keys |-> {"success", "error", "service", "timestamp"}
              \cup (IF isDevelopment(c) THEN {"stack"} ELSE {}),
   success |-> FALSE, error |-> ErrorText(errorMessage(c, err)), data |-> NoData]

\* Express's own last resort when the stack is exhausted (not JSON).
finalResponse(err) ==
  [NoResponse EXCEPT !.status = IF err = NoError THEN 404 ELSE errorStatus(err)]

\* ----------------------------------------------------------------- dispatch
\* Faulty variant: the request that reaches the limit is rejected already.
overLimit_atLimit(c, h, req) == h[req.client] + 1 >= c.security.rateLimitMaxAttempts

\* express-rate-limit: the request is counted, then rejected when the count
\* of its client exceeds max.
overLimit(c, h, req) == h[req.client] + 1 > c.security.rateLimitMaxAttempts

Outcome(handler, res, counted, err) ==
  [handler |-> handler, res |-> res, counted |-> counted, err |-> err]

\* Express walks the stack from layer i. With an error set only an error
\* handler takes the request; without one the error handler is skipped.
\* counted: the rate limiter has counted this request.
RECURSIVE Dispatch(_, _, _, _, _, _, _)
Dispatch(st, c, h, req, i, err, counted) ==
  IF i > Len(st) THEN Outcome("finalhandler", finalResponse(err), counted, err)
  ELSE LET layer == st[i]
           next == Dispatch(st, c, h, req, i + 1, err, counted)
       IN
       IF err # NoError
       THEN IF layer.kind = "errorHandler"
            THEN Outcome("errorHandler", errorResponse(c, err), counted, err)
            ELSE next
       ELSE CASE layer.kind = "cors" ->
                   IF ~originAllowed(c, req.origin)
                   THEN Dispatch(st, c, h, req, i + 1, corsError, counted)
                   ELSE IF req.method = "OPTIONS"
                        THEN Outcome("cors", preflightResponse, counted, err)
                        ELSE next
              [] layer.kind = "rateLimit" ->
                   IF overLimit(c, h, req)
                   THEN Outcome("rateLimit", rateLimitResponse, TRUE, err)
                   ELSE Dispatch(st, c, h, req, i + 1, err, TRUE)
              [] layer.kind = "json" ->
                   IF ~req.bodyOk
                   THEN Dispatch(st, c, h, req, i + 1, parseError, counted)
                   ELSE next
              [] layer.kind = "router" ->
                   IF RouterMatches(layer, req)
                   THEN Outcome(layer.name, moduleResponse, counted, err)
                   ELSE next
              [] layer.kind = "root" ->
                   IF req.method = "GET" /\ req.path = <<>>
                   THEN Outcome("root", rootResponse, counted, err)
                   ELSE next
              [] layer.kind = "health" ->
                   IF req.method = "GET" /\ req.path = <<"health">>
                   THEN Outcome("health", NoResponse, counted, err)
                   ELSE next
              [] layer.kind = "notFound" ->
                   Outcome("notFound", notFoundResponse(req), counted, err)
              [] OTHER -> next

handle(st, c, h, req) == Dispatch(st, c, h, req, 1, NoError, FALSE)

\* The service process.
VARIABLES env, modules, customMiddleware, pc, config, stack, steps, exitCode,
          handlers, dbLog, signals, hits, pending, last, port

\* The generator process (scripts/create-service.js) and the file system it
\* works on.
VARIABLES argv, gpc, genExit, target, template, service

serverVars == <<env, modules, customMiddleware, pc, config, stack, steps, exitCode,
                handlers, dbLog, signals, hits, pending, last, port>>

genVars == <<argv, gpc, genExit, target, template, service>>

\* The database the DatabaseManager is connected to (its tables), and the
\* last call of syncDatabase.
VARIABLES tables, syncRun

dbVars == <<tables, syncRun>>

vars == <<serverVars, genVars, dbVars>>

\* ------------------------------------------------------------- the database
\* The tables of the models of the modules above, and one table of no model.
TableNames == {"Example", "Product", "Order", "Item", "Audit"}

\* A table is absent, there without rows, or there with rows.
NoTables == [t \in TableNames |-> "absent"]

\* The options a caller passes to syncDatabase: force and alter, each given
\* or not.
SyncOptions ==
  {<<>>} \cup [{"force"} -> BOOLEAN] \cup [{"alter"} -> BOOLEAN]
    \cup [{"force", "alter"} -> BOOLEAN]

\* const { force = false, alter = isDevelopment(this.config) } = options
syncDefaults(c, options) ==
  [force |-> IF "force" \in DOMAIN options THEN options["force"] ELSE FALSE,
   alter |-> IF "alter" \in DOMAIN options THEN options["alter"] ELSE isDevelopment(c)]

\* Faulty variant: force is never blocked.
syncBlocked_never(c, o) == FALSE

\* if (this.config.nodeEnv === "production" && force)
syncBlocked(c, o) == c.nodeEnv = "production" /\ o.force

\* sequelize.sync({force, alter}) that got through the first k models before
\* it returned or threw: with force the tables of all models are dropped
\* first and then created again one by one; without it a missing table is
\* created and a table that is there is kept (alter changes its columns
\* only).
sequelizeSync(t, models, o, k) ==
  [n \in TableNames |->
     IF \E i \in 1..Len(models) : models[i] = n
     THEN IF o.force
          THEN (IF \E i \in 1..k : models[i] = n THEN "empty" ELSE "absent")
          ELSE (IF t[n] = "absent" /\ \E i \in 1..k : models[i] = n THEN "empty" ELSE t[n])
     ELSE t[n]]

NoSyncRun == [options |-> <<>>, passed |-> [force |-> FALSE, alter |-> FALSE],
              invoked |-> FALSE, returned |-> "", before |-> NoTables]

\* ---------------------------------------------------------------- lifecycle
\* exitCode of a process that has not exited.
NoExit == 0 - 1

Step(name, ok) == [step |-> name, ok |-> ok]

\* The port of a process that has not called app.listen.
NotListening == 0

NoExchange == [req |-> NoRequest, res |-> NoResponse, handler |-> "", auth |-> FALSE,
               err |-> NoError]

\* The process before src/app.ts runs, in one of the environments E, with
\* one of the ServerOptions O.
BootWith(E, O) ==
  /\ env \in E
  /\ \E o \in O : modules = o.modules /\ customMiddleware = o.customMiddleware
  /\ pc = "boot"
  /\ config = NoConfig
  /\ stack = <<>>
  /\ steps = <<>>
  /\ exitCode = NoExit
  /\ handlers = FALSE
  /\ dbLog = <<>>
  /\ signals = 0
  /\ hits = [c \in Clients |-> 0]
  /\ pending = {}
  /\ last = NoExchange
  /\ port = NotListening
  /\ tables = NoTables
  /\ syncRun = NoSyncRun

Boot(E) == BootWith(E, ServerOptions)

\* process.exit(code)
Exit(code) == pc' = "exited" /\ exitCode' = code

\* src/app.ts: const config = createServiceConfig({...})
createServiceConfig ==
  /\ pc = "boot"
  /\ IF Len(missingVars(env)) > 0
     THEN /\ Exit(1)
          /\ steps' = Append(steps, Step("config", FALSE))
          /\ UNCHANGED config
     ELSE /\ config' = MergeConfig(baseConfig(env), AppOverrides)
          /\ pc' = "setupMiddleware"
          /\ steps' = Append(steps, Step("config", TRUE))
          /\ UNCHANGED exitCode
  /\ UNCHANGED <<env, port, modules, customMiddleware, stack, handlers, dbLog, signals, hits, pending, last>>
  /\ UNCHANGED <<genVars, dbVars>>

\* The constructor of EDGServer, method by method.
ConstructorStep(at, layers, name, to) ==
  /\ pc = at
  /\ stack' = stack \o layers
  /\ steps' = Append(steps, Step(name, TRUE))
  /\ pc' = to
  /\ UNCHANGED <<env, port, modules, customMiddleware, config, exitCode, handlers, dbLog, signals,
                 hits, pending, last>>
  /\ UNCHANGED <<genVars, dbVars>>

SetupMiddleware ==
  ConstructorStep("setupMiddleware", setupMiddleware(config), "middleware", "setupRoutes")

SetupRoutes ==
  ConstructorStep("setupRoutes", setupRoutes(modules), "routes", "setupErrorHandling")

SetupErrorHandling ==
  ConstructorStep("setupErrorHandling", setupErrorHandling, "errorHandling", "customMiddleware")

CustomMiddleware ==
  ConstructorStep("customMiddleware", applyCustomMiddleware(customMiddleware), "custom", "start")

\* app.listen(...) and the two process.on(...) of start().
Listen(done) ==
  /\ pc' = "listening"
  /\ port' = config.port
  /\ handlers' = TRUE
  /\ steps' = steps \o done \o <<Step("listen", TRUE)>>
  /\ UNCHANGED exitCode

\* Faulty variant: start() listens without waiting for the database.
Start_withoutDatabase ==
  /\ pc = "start"
  /\ Listen(<<>>)
  /\ UNCHANGED <<env, modules, customMiddleware, config, stack, dbLog, signals, hits, pending, last>>
  /\ UNCHANGED <<genVars, dbVars>>

\* start() up to its first await: testConnection() awaits authenticate().
Start ==
  /\ pc = "start"
  /\ pc' = "authenticating"
  /\ UNCHANGED <<env, port, modules, customMiddleware, config, stack, steps, exitCode, handlers,
                 dbLog, signals, hits, pending, last>>
  /\ UNCHANGED <<genVars, dbVars>>

\* The model initializers of the modules in the order the two forEach of
\* initializeDatabase reach them.
RECURSIVE modelInits(_)
modelInits(mods) ==
  IF mods = <<>> THEN <<>> ELSE Head(mods).models \o modelInits(Tail(mods))

\* registerModel, once per initializer: the model is pushed onto this.models
\* (the event keeps the list after the push).
registerModels(mods) ==
  [i \in 1..Len(modelInits(mods)) |->
     [event |-> "model", name |-> modelInits(mods)[i], models |-> SubSeq(modelInits(mods), 1, i)]]

\* Faulty variant: an association function gets the models of its own module.
RECURSIVE registerAssociations_ownModels(_, _)
registerAssociations_ownModels(mods, models) ==
  IF mods = <<>> THEN <<>>
  ELSE (IF Head(mods).associations
        THEN <<[event |-> "associations", name |-> Head(mods).name, models |-> Head(mods).models]>>
        ELSE <<>>) \o registerAssociations_ownModels(Tail(mods), models)

\* registerAssociations, once per module that has an association function:
\* associationFn(this.models), models being this.models at that time.
RECURSIVE registerAssociations(_, _)
registerAssociations(mods, models) ==
  IF mods = <<>> THEN <<>>
  ELSE (IF Head(mods).associations
        THEN <<[event |-> "associations", name |-> Head(mods).name, models |-> models]>>
        ELSE <<>>) \o registerAssociations(Tail(mods), models)

DbEvent(e) == [event |-> e, name |-> "", models |-> <<>>]

\* Faulty variant: the result of syncDatabase is dropped.
initializeDatabase_ignoresSync(connected, syncAsked, synced) == connected

\* What initializeDatabase returns: false when the connection test failed,
\* the result of syncDatabase when DB_SYNC asked for it, true otherwise.
initializeDatabase(connected, syncAsked, synced) ==
  IF ~connected THEN FALSE
  ELSE IF syncAsked THEN synced ELSE TRUE

\* syncDatabase(options) up to its return false or to its await.
syncDatabaseCall(options) ==
  /\ syncRun' = [options |-> options, passed |-> syncDefaults(config, options),
                 invoked |-> ~syncBlocked(config, syncDefaults(config, options)),
                 returned |-> IF syncBlocked(config, syncDefaults(config, options))
                              THEN "false" ELSE "pending",
                 before |-> tables]
  /\ UNCHANGED tables

\* sequelize.sync() has settled: syncDatabase returns true, or false from
\* its catch block.
syncDatabaseReturn(ok) ==
  /\ syncRun.returned = "pending"
  /\ \E k \in (IF ok THEN {Len(modelInits(modules))}
               ELSE (0..(Len(modelInits(modules)) - 1)) \cup {0}) :
       tables' = sequelizeSync(tables, modelInits(modules), syncRun.passed, k)
  /\ syncRun' = [syncRun EXCEPT !.returned = IF ok THEN "true" ELSE "false"]

\* Faulty variant: any non-empty DB_SYNC asks for the sync.
syncRequested_truthy(e) == ~Falsy(e["DB_SYNC"])

\* if (process.env.DB_SYNC === "true")
syncRequested(e) == e["DB_SYNC"] = "true"

\* new Sequelize({dialect: config.database.dialect, ...}).authenticate()
Authenticate(c, ok) ==
  [event |-> IF ok THEN "authenticated" ELSE "authenticateFailed", name |-> c.database.dialect,
   models |-> <<>>]

\* authenticate() has settled: the rest of initializeDatabase up to the
\* await of sequelize.sync(), or up to the end of start().
AuthenticateDone(ok) ==
  /\ pc = "authenticating"
  /\ LET registered == IF ok
                       THEN <<Authenticate(config, TRUE)>> \o registerModels(modules)
                              \o registerAssociations(modules, modelInits(modules))
                       ELSE <<Authenticate(config, FALSE)>>
     IN IF ok /\ syncRequested(env)
        THEN /\ dbLog' = dbLog \o registered \o <<DbEvent("sync")>>
             /\ syncDatabaseCall(<<>>)
             /\ pc' = "syncing"
             /\ steps' = Append(steps, Step("connect", TRUE))
             /\ UNCHANGED <<exitCode, handlers, port>>
        ELSE /\ dbLog' = dbLog \o registered
             /\ UNCHANGED dbVars
             /\ IF initializeDatabase(ok, FALSE, FALSE)
                THEN Listen(<<Step("connect", ok)>>)
                ELSE /\ steps' = Append(steps, Step("connect", ok))
                     /\ Exit(1)
                     /\ UNCHANGED <<handlers, port>>
  /\ UNCHANGED <<env, modules, customMiddleware, config, stack, signals, hits, pending, last>>
  /\ UNCHANGED genVars

\* sequelize.sync() has settled: syncDatabase returns, start() goes on.
SyncDone(ok) ==
  /\ pc = "syncing"
  /\ syncDatabaseReturn(ok)
  /\ dbLog' = Append(dbLog, DbEvent(IF ok THEN "synced" ELSE "syncFailed"))
  /\ IF initializeDatabase(TRUE, TRUE, ok)
     THEN Listen(<<Step("sync", ok)>>)
     ELSE /\ steps' = Append(steps, Step("sync", ok))
          /\ Exit(1)
          /\ UNCHANGED <<handlers, port>>
  /\ UNCHANGED <<env, modules, customMiddleware, config, stack, signals, hits, pending, last>>
  /\ UNCHANGED genVars

Signals == {"SIGTERM", "SIGINT"}

\* A signal before start() registered its handlers: the default action of the
\* operating system ends the process.
SignalDefault(sig) ==
  /\ pc \notin {"exited", "killed"}
  /\ ~handlers
  /\ signals < MaxSignals
  /\ signals' = signals + 1
  /\ pc' = "killed"
  /\ UNCHANGED <<env, port, modules, customMiddleware, config, stack, steps, exitCode, handlers,
                 dbLog, hits, pending, last>>
  /\ UNCHANGED <<genVars, dbVars>>

CloseCalls == Len(SelectSeq(dbLog, LAMBDA e : e.event = "close"))

\* shutdown(signal) up to its await: database.close() awaits sequelize.close().
Signal(sig) ==
  /\ pc = "listening"
  /\ handlers
  /\ signals < MaxSignals
  /\ signals' = signals + 1
  /\ dbLog' = Append(dbLog, DbEvent("close"))
  /\ steps' = IF CloseCalls = 0 THEN Append(steps, Step("shutdown", TRUE)) ELSE steps
  /\ UNCHANGED <<env, port, modules, customMiddleware, pc, config, stack, exitCode, handlers,
                 hits, pending, last>>
  /\ UNCHANGED <<genVars, dbVars>>

\* Faulty variant: the exit code of shutdown() is inverted.
shutdownExit_inverted(closed) == IF closed THEN 1 ELSE 0

\* The exit code of shutdown() once database.close() has returned: close()
\* catches the failure of sequelize.close(), so shutdown() sees none.
shutdownExit(closed) == 0

\* sequelize.close() has settled; close() catches its failure; shutdown exits.
\* The process is gone, and with it the rate limiter's counters and the
\* requests still waiting for an answer.
CloseDone(closed) ==
  /\ pc = "listening"
  /\ CloseCalls > 0
  /\ dbLog' = Append(dbLog, DbEvent(IF closed THEN "closed" ELSE "closeFailed"))
  /\ Exit(shutdownExit(closed))
  /\ hits' = [c \in Clients |-> 0]
  /\ pending' = {}
  /\ UNCHANGED <<env, port, modules, customMiddleware, config, stack, steps, handlers, signals, last>>
  /\ UNCHANGED <<genVars, dbVars>>

\* ------------------------------------------------------------ request handling
\* A request arrives at the listening server and runs through the stack up
\* to its response, or up to the await of the health handler.
Receive(req) ==
  /\ pc = "listening"
  /\ \E out \in {handle(stack, config, hits, req)} :
        /\ out.counted => hits[req.client] <= RateLimitMax
        /\ hits' = IF out.counted THEN [hits EXCEPT ![req.client] = @ + 1] ELSE hits
        /\ IF out.handler = "health"
           THEN /\ Cardinality(pending) < MaxPending
                /\ pending' = pending \cup {req}
                /\ UNCHANGED last
           ELSE /\ last' = [req |-> req, res |-> out.res, handler |-> out.handler,
                            auth |-> FALSE, err |-> out.err]
                /\ UNCHANGED pending
  /\ UNCHANGED <<env, port, modules, customMiddleware, pc, config, stack, steps, exitCode, handlers,
                 dbLog, signals>>
  /\ UNCHANGED <<genVars, dbVars>>

\* authenticate() of a waiting health check has settled: the handler answers.
HealthDone(req, authOk) ==
  /\ pc = "listening"
  /\ req \in pending
  /\ pending' = pending \ {req}
  /\ last' = [req |-> req, res |-> healthResponse(healthCheck(authOk)), handler |-> "health",
              auth |-> authOk, err |-> NoError]
  /\ UNCHANGED <<env, port, modules, customMiddleware, pc, config, stack, steps, exitCode, handlers,
                 dbLog, signals, hits>>
  /\ UNCHANGED <<genVars, dbVars>>

\* The rate limiter's window ends: its counters start again.
WindowReset ==
  /\ pc = "listening"
  /\ \E c \in Clients : hits[c] > 0
  /\ hits' = [c \in Clients |-> 0]
  /\ UNCHANGED <<env, port, modules, customMiddleware, pc, config, stack, steps, exitCode, handlers,
                 dbLog, signals, pending, last>>
  /\ UNCHANGED <<genVars, dbVars>>

\* ------------------------------------------------------------------ generator
\* The longest service name the model draws character by character.
MaxNameLen == 3

Lower == {"a", "b", "c", "d", "e", "h", "i", "l", "n", "o", "p", "r", "s", "t", "u", "v"}
Digits == {"1"}
\* The characters names are drawn from: a letter, a digit, the hyphen, and
\* a character outside the pattern.
Chars == {"a", "1", "-", "A"}

RECURSIVE SeqsUpTo(_, _)
SeqsUpTo(S, n) ==
  IF n = 0 THEN {<<>>}
  ELSE LET shorter == SeqsUpTo(S, n - 1)
       IN shorter \cup {Append(q, c) : q \in shorter, c \in S}

authService == <<"a", "u", "t", "h", "-", "s", "e", "r", "v", "i", "c", "e">>
ordersService == <<"o", "r", "d", "e", "r", "s", "-", "s", "e", "r", "v", "i", "c", "e">>
partnersService == <<"p", "a", "r", "t", "n", "e", "r", "s", "-", "s", "e", "r", "v", "i", "c", "e">>
clientsService == <<"c", "l", "i", "e", "n", "t", "s", "-", "s", "e", "r", "v", "i", "c", "e">>
reportsService == <<"r", "e", "p", "o", "r", "t", "s", "-", "s", "e", "r", "v", "i", "c", "e">>

\* A name that is also a property of Object.prototype.
constructorName == <<"c", "o", "n", "s", "t", "r", "u", "c", "t", "o", "r">>

Names == SeqsUpTo(Chars, MaxNameLen)
           \cup {authService, ordersService, partnersService, clientsService,
                 reportsService, constructorName}

\* process.argv.slice(2): whether a first argument that is not the --db flag
\* is given, its characters, and the value of the --db= flag (UNSET: no flag).
ArgLists == [positional : BOOLEAN, name : Names, db : {UNSET, "", "mysql", "postgres", "oracle"}]

\* args[0]: the name, or the flag itself when it comes first; given = FALSE
\* when there is no argument at all.
dbFlag == <<"-", "-", "d", "b", "=">>

serviceName(a) ==
  IF a.positional THEN [given |-> TRUE, chars |-> a.name]
  ELSE IF a.db # UNSET THEN [given |-> TRUE, chars |-> dbFlag]
  ELSE [given |-> FALSE, chars |-> <<>>]

\* !serviceName: undefined or the empty string.
nameMissing(n) == ~n.given \/ n.chars = <<>>

\* /^[a-z][a-z0-9-]*[a-z0-9]$/
nameMatches(n) ==
  /\ Len(n) >= 2
  /\ n[1] \in Lower
  /\ \A i \in 2..(Len(n) - 1) : n[i] \in Lower \cup Digits \cup {"-"}
  /\ n[Len(n)] \in Lower \cup Digits

dbType(a) == OrElse(a.db, "mysql")

supportedDbs == {"mysql", "postgres"}

portMap == [n \in {authService, ordersService, partnersService, clientsService, reportsService} |->
              CASE n = authService -> 3001
                [] n = ordersService -> 3002
                [] n = partnersService -> 3003
                [] n = clientsService -> 3004
                [] n = reportsService -> 3005]

\* Math.floor(Math.random() * 90): the draws the model takes.
RandomDraws == {0, 89}

\* JavaScript values the port can be: a number, a function, undefined.
Number(n) == [type |-> "number", n |-> n]
Function == [type |-> "function", n |-> 0]
Undefined == [type |-> "undefined", n |-> 0]

\* The properties an object literal inherits from Object.prototype whose
\* names the service name pattern can match: constructor (a function).
ObjectPrototype == [n \in {constructorName} |-> Function]

\* portMap[name]: the own property, else the inherited one, else undefined.
Get(object, name) ==
  IF name \in DOMAIN object THEN Number(object[name])
  ELSE IF name \in DOMAIN ObjectPrototype THEN ObjectPrototype[name]
  ELSE Undefined

\* a || b on the values above (every number of portMap is non-zero).
Or(a, b) == IF a.type = "undefined" \/ (a.type = "number" /\ a.n = 0) THEN b ELSE a

getServiceConfig(name, db, r) ==
  [port |-> Or(Get(portMap, name), Number(3010 + r)),
   defaultPort |-> IF db = "postgres" THEN 5432 ELSE 3306]

NoService == [port |-> Undefined, defaultPort |-> 0]

dirs == {"src/core/config", "src/controllers", "src/middleware", "src/models", "src/routes",
         "src/services", "src/types", "src/utils", "scripts", "tests"}

coreFiles == {"src/core/config/environment.ts", "src/core/config/database.ts", "src/core/server.ts"}

filesToCopy == {"tsconfig.json", ".gitignore"}

\* What the target directory holds: each entry with who made it.
Made(paths, by) == {[path |-> q, by |-> by] : q \in paths}

NoTarget == [exists |-> FALSE, entries |-> {}]

\* A directory somebody made before the generator runs.
OldTarget == [exists |-> TRUE, entries |-> Made({"README.md", "src/app.ts"}, "other")]

GenIdle ==
  /\ argv = [positional |-> FALSE, name |-> <<>>, db |-> UNSET]
  /\ gpc = "idle"
  /\ genExit = NoExit
  /\ target = NoTarget
  /\ template = coreFiles \cup filesToCopy
  /\ service = NoService

ServerIdle ==
  /\ env = [n \in EnvNames |-> UNSET]
  /\ modules = <<>>
  /\ customMiddleware = <<>>
  /\ pc = "idle"
  /\ config = NoConfig
  /\ stack = <<>>
  /\ steps = <<>>
  /\ exitCode = NoExit
  /\ handlers = FALSE
  /\ dbLog = <<>>
  /\ signals = 0
  /\ hits = [c \in Clients |-> 0]
  /\ pending = {}
  /\ last = NoExchange
  /\ port = NotListening
  /\ tables = NoTables
  /\ syncRun = NoSyncRun

\* The generator is started with some arguments, the target directory is
\* there or not, and the template has its core files or lacks one.
GenInit ==
  /\ ServerIdle
  /\ argv \in ArgLists
  /\ gpc = "validate"
  /\ genExit = NoExit
  /\ target \in {NoTarget, OldTarget}
  /\ template \in {coreFiles \cup filesToCopy,
                   (coreFiles \cup filesToCopy) \ {"src/core/config/environment.ts"}}
  /\ service = NoService

\* Faulty variant: the existence check never finds the directory.
existsSync_never(t) == FALSE

\* fs.existsSync(servicePath)
existsSync(t) == t.exists

GenExit(code) == gpc' = "exited" /\ genExit' = code

\* Lines 7-64: the arguments, the three validations, getServiceConfig.
GenValidate(r) ==
  /\ gpc = "validate"
  /\ LET n == serviceName(argv)
     IN IF nameMissing(n) \/ ~nameMatches(n.chars) \/ dbType(argv) \notin supportedDbs
        THEN GenExit(1) /\ UNCHANGED service
        ELSE /\ service' = getServiceConfig(n.chars, dbType(argv), r)
             /\ gpc' = "exists"
             /\ UNCHANGED genExit
  /\ UNCHANGED <<argv, target, template>>
  /\ UNCHANGED <<serverVars, dbVars>>

\* Lines 66-70: fs.existsSync(servicePath).
GenCheckExists ==
  /\ gpc = "exists"
  /\ IF existsSync(target) THEN GenExit(1) ELSE gpc' = "mkdir" /\ UNCHANGED genExit
  /\ UNCHANGED <<argv, target, template, service>>
  /\ UNCHANGED <<serverVars, dbVars>>

\* Faulty variant: the catch block leaves the directory as it is.
GenCatch_noCleanup ==
  /\ UNCHANGED target
  /\ GenExit(1)

\* The catch block: remove the target directory when it is there, exit 1.
GenCatch ==
  /\ target' = NoTarget
  /\ GenExit(1)

\* One file system step of the try block: it adds its entries or throws.
GenFsStep(at, to, paths, ok) ==
  /\ gpc = at
  /\ IF ok
     THEN /\ target' = [exists |-> TRUE,
                        entries |-> {e \in target.entries : e.path \notin paths}
                                      \cup Made(paths, "generator")]
          /\ IF to = "done" THEN GenExit(0) ELSE gpc' = to /\ UNCHANGED genExit
     ELSE GenCatch
  /\ UNCHANGED <<argv, template, service>>
  /\ UNCHANGED <<serverVars, dbVars>>

GenMkdirRoot(ok) == GenFsStep("mkdir", "dirs", {}, ok)

GenMkdirDirs(ok) == GenFsStep("dirs", "core", dirs, ok)

\* Faulty variant: the core files are never copied.
GenCopyCore_skipped(ok) == GenFsStep("core", "app", {}, ok)

GenCopyCore(ok) == GenFsStep("core", "app", coreFiles \cap template, ok)

GenWriteApp(ok) == GenFsStep("app", "package", {"src/app.ts"}, ok)

GenWritePackage(ok) == GenFsStep("package", "envExample", {"package.json"}, ok)

GenWriteEnvExample(ok) == GenFsStep("envExample", "copy", {".env.example"}, ok)

GenCopyOther(ok) == GenFsStep("copy", "readme", filesToCopy \cap template, ok)

GenWriteReadme(ok) == GenFsStep("readme", "done", {"README.md"}, ok)

GenNext ==
  \/ \E r \in RandomDraws : GenValidate(r)
  \/ GenCheckExists
  \/ \E ok \in BOOLEAN : GenMkdirRoot(ok)
  \/ \E ok \in BOOLEAN : GenMkdirDirs(ok)
  \/ \E ok \in BOOLEAN : GenCopyCore(ok)
  \/ \E ok \in BOOLEAN : GenWriteApp(ok)
  \/ \E ok \in BOOLEAN : GenWritePackage(ok)
  \/ \E ok \in BOOLEAN : GenWriteEnvExample(ok)
  \/ \E ok \in BOOLEAN : GenCopyOther(ok)
  \/ \E ok \in BOOLEAN : GenWriteReadme(ok)

GenSpec == GenInit /\ [][GenNext]_vars

\* Another process (a second run of the generator for the same name, say)
\* creates the target directory with files of its own while the run is
\* under way.
OtherProcessCreates ==
  /\ gpc \notin {"idle", "exited"}
  /\ \A e \in target.entries : e.by # "other"
  /\ target' = [exists |-> TRUE,
                entries |-> {e \in target.entries : e.path \notin {"README.md", "src/app.ts"}}
                              \cup Made({"README.md", "src/app.ts"}, "other")]
  /\ UNCHANGED <<argv, gpc, genExit, template, service>>
  /\ UNCHANGED <<serverVars, dbVars>>

\* A run that starts without a target directory, next to such a process.
RaceInit == GenInit /\ target = NoTarget

RaceNext == GenNext \/ OtherProcessCreates

RaceSpec == RaceInit /\ [][RaceNext]_vars

\* ------------------------------------------------------------ specifications
\* The environments of the bootstrap: CORS_ORIGINS, which only requests
\* depend on, is left unset.
BootEnvironments == {e \in Environments : e["CORS_ORIGINS"] = UNSET}

Init == BootWith(BootEnvironments, ServerOptions \cup DatabaseOptions) /\ GenIdle

\* The environments of a service that is configured to start and serve:
\* the required variables set, the optional PORT, DB_TYPE, DB_SYNC
\* and CORS_ORIGINS left unset, NODE_ENV of any value.
ServingEnvironments ==
  {e \in Environments : /\ Len(missingVars(e)) = 0
                        /\ e["DB_SYNC"] = UNSET /\ e["PORT"] = UNSET /\ e["DB_TYPE"] = UNSET
                        /\ e["CORS_ORIGINS"] = UNSET}

\* The template application in each of them, and the service with a module
\* mounted at "/" in production.
ServeInit ==
  /\ \/ BootWith(ServingEnvironments, {o \in ServerOptions : o.customMiddleware # <<>>})
     \/ BootWith({e \in ServingEnvironments : e["NODE_ENV"] = "production"}, ServerOptions)
  /\ GenIdle

\* The life of the process from any environment: configuration, construction,
\* database, listen, signals, exit.
Next ==
  \/ createServiceConfig
  \/ SetupMiddleware
  \/ SetupRoutes
  \/ SetupErrorHandling
  \/ CustomMiddleware
  \/ Start
  \/ \E ok \in BOOLEAN : AuthenticateDone(ok)
  \/ \E ok \in BOOLEAN : SyncDone(ok)
  \/ \E sig \in Signals : SignalDefault(sig)
  \/ \E sig \in Signals : Signal(sig)
  \/ \E closed \in BOOLEAN : CloseDone(closed)

Spec == Init /\ [][Next]_vars

\* A service that starts and serves requests until a signal ends it. No
\* environment of ServeInit asks for a sync, so SyncDone is never enabled.
ServeNext ==
  \/ createServiceConfig
  \/ SetupMiddleware
  \/ SetupRoutes
  \/ SetupErrorHandling
  \/ CustomMiddleware
  \/ Start
  \/ \E ok \in BOOLEAN : AuthenticateDone(ok)
  \/ \E sig \in Signals : SignalDefault(sig)
  \/ \E sig \in Signals : Signal(sig)
  \/ \E closed \in BOOLEAN : CloseDone(closed)
  \/ \E req \in Requests : Receive(req)
  \/ \E req \in Requests, authOk \in BOOLEAN : HealthDone(req, authOk)
  \/ WindowReset

ServeSpec == ServeInit /\ [][ServeNext]_vars

\* The template application in production, with CORS_ORIGINS set or not,
\* serving requests.
CorsInit ==
  /\ BootWith({e \in Environments : /\ Len(missingVars(e)) = 0
                                    /\ e["NODE_ENV"] = "production"
                                    /\ e["DB_SYNC"] = UNSET /\ e["PORT"] = UNSET
                                    /\ e["DB_TYPE"] = UNSET},
              {o \in ServerOptions : o.customMiddleware # <<>>})
  /\ GenIdle

CorsSpec == CorsInit /\ [][ServeNext]_vars

\* The same service in a production environment, for what a signal leads
\* to: sequelize.close() settles, and the event loop runs the continuation
\* of shutdown().
ShutdownInit ==
  Boot({e \in ServingEnvironments : e["NODE_ENV"] = "production"}) /\ GenIdle

FairServeSpec ==
  /\ ShutdownInit
  /\ [][ServeNext]_vars
  /\ WF_vars(\E closed \in BOOLEAN : CloseDone(closed))

\* A DatabaseManager of the template application that a caller built from
\* the configuration, on a database that has the table of the model and a
\* table of no model in any state; the caller calls syncDatabase once.
SyncInit ==
  /\ env \in {e \in BootEnvironments : /\ Len(missingVars(e)) = 0
                                        /\ e["DB_SYNC"] = UNSET /\ e["PORT"] = UNSET
                                        /\ e["DB_TYPE"] = UNSET}
  /\ modules = <<templateModule>>
  /\ customMiddleware = <<>>
  /\ pc = "manager"
  /\ config = MergeConfig(baseConfig(env), AppOverrides)
  /\ stack = <<>>
  /\ steps = <<>>
  /\ exitCode = NoExit
  /\ handlers = FALSE
  /\ dbLog = <<>>
  /\ signals = 0
  /\ hits = [c \in Clients |-> 0]
  /\ pending = {}
  /\ last = NoExchange
  /\ port = NotListening
  /\ tables \in {t \in [TableNames -> {"absent", "empty", "rows"}] :
                   \A n \in TableNames \ {"Example", "Audit"} : t[n] = "absent"}
  /\ syncRun = NoSyncRun
  /\ GenIdle

\* database.syncDatabase(options), called by the owner of the manager.
syncDatabase(options) ==
  /\ pc = "manager"
  /\ syncRun.returned = ""
  /\ syncDatabaseCall(options)
  /\ UNCHANGED <<serverVars, genVars>>

\* The await of sequelize.sync() in that call ends.
SequelizeSyncDone(ok) ==
  /\ pc = "manager"
  /\ syncDatabaseReturn(ok)
  /\ UNCHANGED <<serverVars, genVars>>

SyncNext ==
  \/ \E options \in SyncOptions : syncDatabase(options)
  \/ \E ok \in BOOLEAN : SequelizeSyncDone(ok)

SyncSpec == SyncInit /\ [][SyncNext]_vars

\* ===================================================================== claims

HasStep(name) == \E i \in 1..Len(steps) : steps[i].step = name
HasDbEvent(e) == \E i \in 1..Len(dbLog) : dbLog[i].event = e

\* C3: when the connection test failed, or DB_SYNC is "true" and the sync
\* failed, the process has exited with code 1 and never listened; and the
\* server has listened only after the connection test succeeded and, when
\* DB_SYNC is "true", the sync succeeded too.
C3_StartupFailsFatally ==
  /\ (HasDbEvent("authenticateFailed") \/ (env["DB_SYNC"] = "true" /\ HasDbEvent("syncFailed")))
       => (pc = "exited" /\ exitCode = 1 /\ ~HasStep("listen") /\ ~handlers)
  /\ (HasStep("listen") \/ pc = "listening")
       => (HasDbEvent("authenticated") /\ (env["DB_SYNC"] = "true" => HasDbEvent("synced")))

C3_Witness ==
  /\ env["DB_SYNC"] = "true"
  /\ HasDbEvent("authenticated")
  /\ HasDbEvent("syncFailed")
  /\ pc = "exited"
  /\ exitCode = 1

\* The steps of the bootstrap sequence, in the order the claim gives them.
BootstrapOrder == <<"config", "middleware", "routes", "connect", "sync", "listen", "shutdown">>

Rank(name) == CHOOSE k \in 1..Len(BootstrapOrder) : BootstrapOrder[k] = name

BootstrapSteps == SelectSeq(steps, LAMBDA s : \E k \in 1..Len(BootstrapOrder) : BootstrapOrder[k] = s.step)

\* C4: the steps of a run come in the order config, middleware chain,
\* routes, database connect, sync (exactly when DB_SYNC is "true"), listen,
\* shutdown; none is skipped, and no step follows one that failed.
C4_BootstrapOrder ==
  LET b == BootstrapSteps
  IN /\ b # <<>> => b[1].step = "config"
     /\ \A i \in 2..Len(b) :
          /\ b[i - 1].ok
          /\ \/ Rank(b[i].step) = Rank(b[i - 1].step) + 1 /\ (b[i].step = "sync" => env["DB_SYNC"] = "true")
             \/ b[i - 1].step = "connect" /\ b[i].step = "listen" /\ env["DB_SYNC"] # "true"
     /\ pc = "listening" => HasStep("listen")

C4_Witness ==
  /\ Len(BootstrapSteps) = Len(BootstrapOrder)
  /\ pc = "exited"
  /\ exitCode = 0

\* ------------------------------------------------------- claims on requests
Answered == last.handler # ""

\* C2: a request the health handler answered has status 200, success = true
\* and status "healthy" exactly when authenticate() succeeded during it, and
\* status 503 with success = false otherwise.
C2_HealthFollowsDatabase ==
  last.handler = "health" =>
    /\ (last.res.status = 200 /\ last.res.success /\ last.res.data.status = "healthy") <=> last.auth
    /\ ~last.auth => (last.res.status = 503 /\ ~last.res.success)

C2_Witness ==
  /\ last.handler = "health"
  /\ ~last.auth
  /\ last.res.status = 503
  /\ last.res.data.status = "unhealthy"

\* The request matches a route of a registered module router.
MatchesModule(req) ==
  \E i \in 1..Len(modules) :
    /\ Len(modules[i].path) <= Len(req.path)
    /\ SubSeq(req.path, 1, Len(modules[i].path)) = modules[i].path
    /\ <<req.method, SubSeq(req.path, Len(modules[i].path) + 1, Len(req.path))>> \in modules[i].routes

Unmatched(req) ==
  /\ ~(req.method = "GET" /\ req.path = <<>>)
  /\ ~(req.method = "GET" /\ req.path = <<"health">>)
  /\ ~MatchesModule(req)

\* The 404 answer: status 404, success = false, an error naming the method
\* and the URL, a timestamp.
NotFoundAnswer(x) ==
  /\ x.res.status = 404
  /\ x.res.json
  /\ ~x.res.success
  /\ "error" \in x.res.keys
  /\ x.res.error.method = x.req.method
  /\ x.res.error.url = x.req.path
  /\ "timestamp" \in x.res.keys

\* C5 as stated: every answered request that matches no route got the 404
\* answer.
C5_Original_EveryUnmatched404 ==
  (Answered /\ Unmatched(last.req)) => NotFoundAnswer(last)

\* C5, amended: a request that matches no route, that carries no Origin or
\* an allowed one, that is not an OPTIONS preflight and whose body parses,
\* got the 404 answer, unless the rate limiter rejected it with 429.
C5_UnmatchedPastMiddleware404 ==
  ( /\ Answered
    /\ Unmatched(last.req)
    /\ (last.req.origin = UNSET \/ last.req.origin \in config.cors.origins)
    /\ last.req.method # "OPTIONS"
    /\ last.req.bodyOk )
  => \/ NotFoundAnswer(last)
     \/ last.handler = "rateLimit" /\ last.res.status = 429

C5_Witness ==
  /\ last.handler = "notFound"
  /\ last.req.method = "POST"
  /\ last.req.path = <<"template", "info">>
  /\ last.req.origin = "http://localhost:5173"
  /\ last.res.status = 404

Generic == "Errore interno del server"

\* C6 as stated: the error handler answers 500 with the generic message and
\* no stack in production, with the raw message and the stack in
\* development.
C6_Original_Production500 ==
  last.handler = "errorHandler" =>
    /\ config.nodeEnv = "production" =>
         (last.res.status = 500 /\ last.res.error.message = Generic /\ "stack" \notin last.res.keys)
    /\ config.nodeEnv = "development" =>
         (last.res.error.message = last.err.message /\ "stack" \in last.res.keys)

\* C6, amended: the error handler answers with the error's own status when
\* it has one and with 500 otherwise; in production with the generic message
\* and no stack, in development with the raw message and the stack.
C6_ErrorStatusOr500 ==
  last.handler = "errorHandler" =>
    /\ last.res.status = (IF last.err.status # 0 THEN last.err.status ELSE 500)
    /\ config.nodeEnv = "production" =>
         (last.res.error.message = Generic /\ "stack" \notin last.res.keys)
    /\ config.nodeEnv = "development" =>
         (last.res.error.message = last.err.message /\ "stack" \in last.res.keys)

C6_Witness ==
  /\ last.handler = "errorHandler"
  /\ config.nodeEnv = "production"
  /\ last.err = parseError
  /\ last.res.status = 400
  /\ last.res.error.message = Generic

\* C9 as stated: every JSON answer of the scaffold's own handlers has a
\* success flag, data and no error when success is true, error and no data
\* when it is false, and a top-level timestamp.
C9_Original_Envelope ==
  (last.handler \in {"root", "health", "notFound", "errorHandler", "rateLimit"} /\ last.res.json) =>
    /\ "success" \in last.res.keys
    /\ "timestamp" \in last.res.keys
    /\ IF last.res.success
       THEN "data" \in last.res.keys /\ "error" \notin last.res.keys
       ELSE "error" \in last.res.keys /\ "data" \notin last.res.keys

CloseSettled == HasDbEvent("closed") \/ HasDbEvent("closeFailed")

\* C10: once a signal reached the listening server, the process exits; it
\* exits only after database.close() was called and has returned, and with
\* code 0 when the connection was closed.
C10_SignalClosesThenExits ==
  /\ [](HasStep("shutdown") /\ pc = "exited" => CloseSettled)
  /\ [](HasStep("shutdown") /\ HasDbEvent("closed") => (pc = "exited" /\ exitCode = 0))
  /\ (HasStep("shutdown") ~> (pc = "exited" /\ CloseSettled))

C10_Witness ==
  /\ HasStep("shutdown")
  /\ HasDbEvent("closed")
  /\ pc = "exited"
  /\ exitCode = 0

\* ------------------------------------------------------ claims on the generator
\* C7: while the target directory is there and the generator has not gone
\* past its existence check, no step changes the directory, none goes past
\* the check, and the generator exits with code 1.
C7_RefusesToOverwrite ==
  [][(target.exists /\ gpc \in {"validate", "exists"})
       => /\ target' = target
          /\ gpc' \in {"validate", "exists", "exited"}
          /\ (gpc' = "exited" => genExit' = 1)]_vars

C7_Witness ==
  /\ target = OldTarget
  /\ service # NoService
  /\ gpc = "exited"
  /\ genExit = 1

\* The names the claim says are accepted.
ClaimedValid(a) ==
  /\ a.positional
  /\ a.name # <<>>
  /\ \A i \in 1..Len(a.name) : a.name[i] \in Lower \cup Digits \cup {"-"}
  /\ a.name[1] \in Lower
  /\ a.name[Len(a.name)] \in Lower \cup Digits

\* C8 as stated: after validation, a name of the claimed form (with a
\* supported database type) has been accepted, and any other name has ended
\* the run with code 1 and nothing created.
C8_Original_NamePattern ==
  gpc # "validate" =>
    /\ (ClaimedValid(argv) /\ dbType(argv) \in supportedDbs) => service # NoService
    /\ ~ClaimedValid(argv) =>
         (gpc = "exited" /\ genExit = 1 /\ service = NoService
            /\ \A e \in target.entries : e.by # "generator")

\* C11 as stated: a process that listens does so on the port PORT names when
\* PORT is set, and on 3001 when it is not.
C11_Original_ListensOnPortVariable ==
  port # NotListening =>
    /\ env["PORT"] = "8080" => port = 8080
    /\ env["PORT"] = UNSET => port = 3001

\* C12 as stated: the connection is made with the PostgreSQL dialect when
\* DB_TYPE is "postgres", and with the MySQL dialect when it is "mysql" or
\* unset.
C12_Original_DialectFollowsDbType ==
  \A i \in 1..Len(dbLog) :
    dbLog[i].event \in {"authenticated", "authenticateFailed"} =>
      /\ env["DB_TYPE"] = "postgres" => dbLog[i].name = "postgres"
      /\ env["DB_TYPE"] \in {"mysql", UNSET} => dbLog[i].name = "mysql"

\* C13: the ORM sync has been invoked exactly when the connection test
\* succeeded and DB_SYNC is "true"; with any other DB_SYNC, a successful
\* connection test is followed at once by listen, with no sync at all.
C13_SyncOptIn ==
  /\ HasDbEvent("sync") <=> (HasDbEvent("authenticated") /\ env["DB_SYNC"] = "true")
  /\ (HasDbEvent("authenticated") /\ env["DB_SYNC"] # "true")
       => /\ HasStep("listen")
          /\ ~HasStep("sync")
          /\ ~HasDbEvent("synced")
          /\ ~HasDbEvent("syncFailed")

C13_Witness ==
  /\ env["DB_SYNC"] = "false"
  /\ HasDbEvent("authenticated")
  /\ ~HasDbEvent("sync")
  /\ pc = "listening"

\* C14 as stated: with DB_NAME, DB_USER and DB_PASSWORD set and every other
\* variable unset, createServiceConfig returns a configuration, without
\* exiting, whose database host is localhost.
C14_Original_ThreeRequiredVars ==
  (/\ steps # <<>>
   /\ \A v \in {"DB_NAME", "DB_USER", "DB_PASSWORD"} : env[v] = "v"
   /\ \A v \in EnvNames \ {"DB_NAME", "DB_USER", "DB_PASSWORD"} : env[v] = UNSET)
    => /\ steps[1] = Step("config", TRUE)
       /\ config # NoConfig
       /\ config.database.host = "localhost"
       /\ ~(pc = "exited" /\ Len(steps) = 1)

\* C15 as stated: a run that has exited with code 0 has left the target
\* directory with the three core files, src/app.ts, package.json,
\* .env.example and README.md.
C15_Original_FixedLayout ==
  (gpc = "exited" /\ genExit = 0) =>
    /\ target.exists
    /\ \A f \in {"src/core/config/environment.ts", "src/core/config/database.ts",
                 "src/core/server.ts", "src/app.ts", "package.json", ".env.example",
                 "README.md"} :
         [path |-> f, by |-> "generator"] \in target.entries

\* C15: a run that has exited with code 0 has left the target directory with
\* src/app.ts, package.json, .env.example and README.md, and with each of the
\* three core files that the template directory has; a core file the
\* template lacks is not there.
C15_LayoutOfWhatTemplateHas ==
  (gpc = "exited" /\ genExit = 0) =>
    /\ target.exists
    /\ \A f \in {"src/app.ts", "package.json", ".env.example", "README.md"} :
         [path |-> f, by |-> "generator"] \in target.entries
    /\ \A f \in {"src/core/config/environment.ts", "src/core/config/database.ts",
                 "src/core/server.ts"} :
         f \in template <=> [path |-> f, by |-> "generator"] \in target.entries

C15_Witness ==
  /\ gpc = "exited"
  /\ genExit = 0
  /\ "src/core/config/environment.ts" \notin template
  /\ [path |-> "src/core/server.ts", by |-> "generator"] \in target.entries
  /\ \A e \in target.entries : e.path # "src/core/config/environment.ts"

\* C16 as stated: an accepted name of the five known services has its fixed
\* port 3001..3005, and every other accepted name has an integer port in
\* 3010..3099.
C16_Original_AutomaticPort ==
  service # NoService =>
    /\ service.port.type = "number"
    /\ argv.name = authService => service.port.n = 3001
    /\ argv.name = ordersService => service.port.n = 3002
    /\ argv.name = partnersService => service.port.n = 3003
    /\ argv.name = clientsService => service.port.n = 3004
    /\ argv.name = reportsService => service.port.n = 3005
    /\ argv.name \notin {authService, ordersService, partnersService, clientsService,
                         reportsService}
         => service.port.n \in 3010..3099

\* What a server that has handled no request yet answers to req.
FreshOutcome(req) == handle(stack, config, [c \in Clients |-> 0], req)

RequestStep ==
  /\ pc = "listening"
  /\ pc' = "listening"
  /\ last' # last \/ pending' # pending

LayersOf(kind) == {i \in 1..Len(stack) : stack[i].kind = kind}

\* C18 as stated: when the 404 handler has answered a request on a server
\* built with custom middleware, the custom layers stand before the 404
\* handler in the stack, so the request went through them first.
C18_Original_CustomMiddlewareReached ==
  (Answered /\ last.handler = "notFound" /\ customMiddleware # <<>>)
    => /\ LayersOf("custom") # {}
       /\ \A i \in LayersOf("custom"), j \in LayersOf("notFound") : i < j

\* The request carries no Origin header or an allowed one.
OriginPasses(req) == req.origin = UNSET \/ req.origin \in config.cors.origins

EventsOf(e) == {i \in 1..Len(dbLog) : dbLog[i].event = e}

\* The model initializers of the modules, module by module.
RECURSIVE Concatenation(_)
Concatenation(seqs) ==
  IF seqs = <<>> THEN <<>> ELSE seqs[1] \o Concatenation(SubSeq(seqs, 2, Len(seqs)))

AllModels == Concatenation([k \in 1..Len(modules) |-> modules[k].models])

\* The names of the events of one kind, in the order of the log.
NamesOf(e) ==
  LET picked == SelectSeq(dbLog, LAMBDA x : x.event = e)
  IN [i \in 1..Len(picked) |-> picked[i].name]

\* C21: no model initializer and no association function is called unless
\* the connection test succeeded before it; after a successful test the
\* model initializers called are those of all modules, once each, in module
\* order; every one of them comes before every association function; every
\* module with an association function has had it called with the list of
\* all models; and the sync comes after all of this.
C21_RegistrationOrder ==
  /\ \A i \in EventsOf("model") \cup EventsOf("associations") \cup EventsOf("sync") :
       \E j \in EventsOf("authenticated") : j < i
  /\ HasDbEvent("authenticateFailed") => EventsOf("model") \cup EventsOf("associations") = {}
  /\ HasDbEvent("authenticated") =>
       /\ NamesOf("model") = AllModels
       /\ NamesOf("associations") =
            [k \in 1..Len(SelectSeq(modules, LAMBDA m : m.associations)) |->
               SelectSeq(modules, LAMBDA m : m.associations)[k].name]
  /\ \A i \in EventsOf("model"), j \in EventsOf("associations") : i < j
  /\ \A j \in EventsOf("associations") : dbLog[j].models = AllModels
  /\ \A i \in EventsOf("model") \cup EventsOf("associations"), j \in EventsOf("sync") : i < j

C21_Witness ==
  /\ Len(modules) = 2
  /\ env["DB_SYNC"] = "true"
  /\ Cardinality(EventsOf("model")) = 3
  /\ Cardinality(EventsOf("associations")) = 2
  /\ HasDbEvent("synced")

\* The origins the claim allows in the environment of the process.
ClaimedAllowed ==
  {UNSET, "http://localhost:5173", "http://localhost:5174", "http://localhost:3000",
   "http://localhost:8080"}
    \cup (IF env["CORS_ORIGINS"] = " https://app.example ,https://admin.example"
          THEN {"https://app.example", "https://admin.example"} ELSE {})

\* C22: an answered request without Origin, or with an Origin among the four
\* defaults or the trimmed entries of CORS_ORIGINS, was not rejected by cors;
\* one with any other Origin was answered by the error handler with the cors
\* error, and by no module route, root handler or health handler.
C22_CorsAllowList ==
  Answered =>
    IF last.req.origin \in ClaimedAllowed
    THEN last.err.message # "Non consentito da CORS"
    ELSE /\ last.handler = "errorHandler"
         /\ last.err.message = "Non consentito da CORS"
         /\ last.res.status >= 400

C22_Witness ==
  /\ env["CORS_ORIGINS"] # UNSET
  /\ last.req.origin = "https://app.example"
  /\ last.handler = "template"
  /\ last.res.status = 200

\* C23 as stated: when syncDatabase has returned true, every table that was
\* there is still there with its rows, and the missing table of every model
\* has been created.
C23_Original_SyncPreservesData ==
  syncRun.returned = "true" =>
    \A n \in TableNames :
      /\ syncRun.before[n] # "absent" => tables[n] = syncRun.before[n]
      /\ (syncRun.before[n] = "absent" /\ \E i \in 1..Len(modules) :
                                            \E j \in 1..Len(modules[i].models) :
                                              modules[i].models[j] = n)
           => tables[n] = "empty"

\* C24: in production a syncDatabase called with force = true has returned
\* false, the ORM sync was not invoked and the tables are as they were; and
\* with NODE_ENV "production" or "test" a syncDatabase called without options
\* has invoked the ORM sync with force = false and alter = false.
C24_ProductionProtection ==
  syncRun.returned # "" =>
    /\ (/\ env["NODE_ENV"] = "production"
        /\ "force" \in DOMAIN syncRun.options
        /\ syncRun.options["force"])
         => /\ syncRun.returned = "false"
            /\ ~syncRun.invoked
            /\ tables = syncRun.before
    /\ (env["NODE_ENV"] \in {"production", "test"} /\ syncRun.options = <<>>)
         => /\ syncRun.invoked
            /\ syncRun.passed = [force |-> FALSE, alter |-> FALSE]

C24_Witness ==
  /\ env["NODE_ENV"] = "production"
  /\ "force" \in DOMAIN syncRun.options
  /\ syncRun.options["force"]
  /\ syncRun.returned = "false"
  /\ tables["Example"] = "rows"

\* C25 as stated: an answer of the error handler carries the raw message
\* and the stack when NODE_ENV is "development", and the generic message and
\* no stack when NODE_ENV is unset or has any other value.
C25_Original_RawOnlyIfExplicitDevelopment ==
  last.handler = "errorHandler" =>
    IF env["NODE_ENV"] = "development"
    THEN last.res.error.message = last.err.message /\ "stack" \in last.res.keys
    ELSE last.res.error.message = Generic /\ "stack" \notin last.res.keys

\* C25: an answer of the error handler carries the raw message and the stack
\* when NODE_ENV is "development" or is not set (development is the default),
\* and the generic message and no stack when NODE_ENV has any other value.
C25_RawIfDevelopmentOrUnset ==
  last.handler = "errorHandler" =>
    IF env["NODE_ENV"] \in {"development", UNSET}
    THEN last.res.error.message = last.err.message /\ "stack" \in last.res.keys
    ELSE last.res.error.message = Generic /\ "stack" \notin last.res.keys

C25_Witness ==
  /\ env["NODE_ENV"] = UNSET
  /\ last.handler = "errorHandler"
  /\ last.res.error.message = "Non consentito da CORS"
  /\ "stack" \in last.res.keys

\* C26 as stated: once shutdown has begun the server takes no new request
\* in (no request is counted, none starts to wait, and the only answers are
\* those to requests that were waiting), and the process exits only when no
\* request is waiting for its answer.
C26_Original_GracefulShutdown ==
  [][/\ (pc = "listening" /\ CloseCalls > 0 /\ pc' = "listening")
          => /\ pending' \subseteq pending
             /\ \A c \in Clients : hits'[c] <= hits[c]
             /\ last' # last => last'.req \in pending
     /\ (pc = "listening" /\ pc' = "exited") => pending = {}]_vars

\* C27 as stated: a process that has exited from shutdown has exit code 1
\* when closing the connection failed, and exit code 0 only when the
\* connection was closed.
C27_Original_CloseFailureExitsOne ==
  (pc = "exited" /\ HasStep("shutdown")) =>
    /\ HasDbEvent("closeFailed") => exitCode = 1
    /\ exitCode = 0 => HasDbEvent("closed")

C29_Original_NoInterference ==
  [][/\ \A e \in target.entries : e.by = "other" => e \in target'.entries
     /\ ~(\E e \in target'.entries : e.by = "other" /\ \E f \in target'.entries : f.by = "generator")
    ]_vars

====
